---- MODULE Spec2Model ----
(***************************************************************************)
(* A model of postgres-audit-proxy: the incremental PostgreSQL message     *)
(* framer and the MD5 authentication rewriter of app.py, and the           *)
(* JWT-authenticated handshake of jwt_postgresql_proxy.py.                 *)
(*                                                                         *)
(* Byte strings are sequences of integers 0..255.                          *)
(***************************************************************************)
EXTENDS Integers, Sequences, FiniteSets, TLC

VARIABLES
    \* ---- framer (postgres_message_parser) ----
    num_startup_messages,   \* the parser's constructor argument
    data_buffer,            \* bytes pushed and not yet popped
    messages_popped,        \* messages popped so far
    stream,                 \* the bytes the peer will send on this direction
    unread,                 \* the suffix of stream not yet pushed
    emitted,                \* every Message returned by extract_messages so far
    well_formed,            \* stream is a concatenation of whole messages
    at_eof,                 \* the reader has seen the empty read of EOF
    \* ---- MD5 rewriter (postgres_auth_processor) ----
    server_salt,            \* nonlocal server_salt
    client_salt,            \* nonlocal client_salt
    call,                   \* the last call: direction, message, what it yielded
    auth_error,             \* the exception that ended the connection, if any
    twin_server_salt,       \* server_salt of the run with another server salt
    twin_to_client,         \* what that run wrote to the client in the same call
    \* ---- JWT handshake (handle_downstream) ----
    pc,                     \* where handle_downstream is
    downstream_sock_ssl,    \* TRUE once it is not None
    upstream_sock,          \* TRUE once it is not None
    upstream_sock_ssl,      \* TRUE once it is not None
    user,                   \* returned by downstream_startup
    database,
    received_token,         \* the password read by downstream_authenticate
    raised,                 \* the exception raised in the try block
    downstream_sent,        \* what was sent to the client, in order
    upstream_sent,          \* what was sent to the server, in order
    downstream_closed,      \* downstream_sock.close() was called
    upstream_closed,        \* upstream_sock.close() was called
    peer_eof,               \* a peer has closed its side
    downstream_received,    \* what recv_exactly returned from the client, in order
    \* ---- connection supervisor (handle_client) ----
    client_stream,          \* the bytes the client sends on this connection
    client_unread,          \* those that client_reader.read has not returned yet
    server_stream,          \* the bytes the server sends on this connection
    server_unread,
    c2s_parser,             \* data_buffer and messages_popped of c2s_parser
    s2c_parser,             \* data_buffer and messages_popped of s2c_parser
    c2s_out,                \* the messages passed to c2s_from_inside, in order
    s2c_out,                \* the messages passed to s2c_from_inside, in order
    server_written,         \* the bytes given to server_writer.write
    client_written,         \* the bytes given to client_writer.write
    client_task,            \* on_read(client_reader, ...): running, done, raised
    server_task,            \* on_read(server_reader, ...): running, done, raised
    closed                  \* the finally block of handle_client has run

framerVars == <<num_startup_messages, data_buffer, messages_popped,
                stream, unread, emitted, well_formed, at_eof>>

authVars == <<server_salt, client_salt, call, auth_error,
              twin_server_salt, twin_to_client>>

jwtVars == <<pc, downstream_sock_ssl, upstream_sock, upstream_sock_ssl,
             user, database, received_token, raised, downstream_sent, upstream_sent,
             downstream_closed, upstream_closed, peer_eof,
             downstream_received>>

pipeVars == <<client_stream, client_unread, server_stream, server_unread,
              c2s_parser, s2c_parser, c2s_out, s2c_out,
              server_written, client_written, client_task, server_task,
              closed>>

vars == <<framerVars, authVars, jwtVars, pipeVars>>

----------------------------------------------------------------------------
(* Bounds of the model                                                     *)

MaxMsgs == 3        \* messages in a well-formed stream
MaxArbLen == 5      \* length of a stream of arbitrary bytes
MaxOtherPairs == 2  \* pairs other than user in a client's StartupMessage
MaxClientMsgs == 3  \* messages a client sends on a proxied connection
MaxServerMsgs == 2  \* messages the server sends on a proxied connection

----------------------------------------------------------------------------
(* Python helpers                                                          *)

None == <<-1>>      \* Python's None; no byte string equals it

Min(a, b) == IF a < b THEN a ELSE b
Max(a, b) == IF a > b THEN a ELSE b

\* A slice bound as Python normalises it: negative counts from the end,
\* and the result is clamped to 0..len.
SliceIndex(i, len) == IF i < 0 THEN Max(len + i, 0) ELSE Min(i, len)

\* s[a:b]
PySlice(s, a, b) ==
    LET lo == SliceIndex(a, Len(s))
        hi == SliceIndex(b, Len(s))
    IN  IF lo >= hi THEN <<>> ELSE SubSeq(s, lo + 1, hi)

\* s[a:]
PySliceFrom(s, a) ==
    LET lo == SliceIndex(a, Len(s))
    IN  IF lo >= Len(s) THEN <<>> ELSE SubSeq(s, lo + 1, Len(s))

\* b"".join(flatten(messages)): the bytes of the Message triples in order
RECURSIVE JoinFlatten(_)
JoinFlatten(messages) ==
    IF messages = <<>> THEN <<>>
    ELSE LET m == Head(messages)
         IN  m.type \o m.payload_length \o m.payload
               \o JoinFlatten(Tail(messages))

----------------------------------------------------------------------------
(* app.py: constants and length packing                                    *)

START_MESSAGE_TYPE_LENGTH == 0
LATER_MESSAGE_TYPE_LENGTH == 1
PAYLOAD_LENGTH_LENGTH == 4
NO_DATA_TYPE == <<78>>                  \* b"N"
SSL_REQUEST_PAYLOAD == <<4, 210, 22, 47>>

Message(type, payload_length, payload) ==
    [type |-> type, payload_length |-> payload_length, payload |-> payload]

\* struct.unpack("!L", length_bytes)[0] - PAYLOAD_LENGTH_LENGTH
unpack_length(length_bytes) ==
    length_bytes[1] * 16777216 + length_bytes[2] * 65536
      + length_bytes[3] * 256 + length_bytes[4] - PAYLOAD_LENGTH_LENGTH

\* struct.pack("!L", length + PAYLOAD_LENGTH_LENGTH)
pack_length(length) ==
    LET n == length + PAYLOAD_LENGTH_LENGTH
    IN  << (n \div 16777216) % 256, (n \div 65536) % 256,
           (n \div 256) % 256, n % 256 >>

----------------------------------------------------------------------------
(* app.py: postgres_message_parser                                         *)

\* push_data that forgets the bytes retained from earlier calls
push_data_overwrite(buffer, incoming_data) == incoming_data

\* push_data
push_data(buffer, incoming_data) == buffer \o incoming_data

\* attempt_pop_message without the NO_DATA_TYPE rule: every type byte is taken
\* to be followed by four length bytes
attempt_pop_message_no_N(buffer, type_length) ==
    LET type_bytes == PySlice(buffer, 0, type_length)
        has_type_bytes == Len(type_bytes) = type_length
        payload_length_length == PAYLOAD_LENGTH_LENGTH
        payload_length_bytes ==
            PySlice(buffer, type_length, type_length + payload_length_length)
        has_payload_length_bytes ==
            has_type_bytes /\ Len(payload_length_bytes) = payload_length_length
        payload_length ==
            IF has_payload_length_bytes
            THEN unpack_length(payload_length_bytes) ELSE 0
        payload_bytes ==
            PySlice(buffer, type_length + payload_length_length,
                    type_length + payload_length_length + payload_length)
        has_payload_bytes ==
            has_payload_length_bytes /\ Len(payload_bytes) = payload_length
        message_length == type_length + payload_length_length + payload_length
    IN  [has_popped |-> has_payload_bytes,
         message |-> Message(type_bytes, payload_length_bytes, payload_bytes),
         buffer |-> IF has_payload_bytes
                    THEN PySliceFrom(buffer, message_length)
                    ELSE buffer]

\* attempt_pop_message: the flag, the Message and the buffer it leaves
attempt_pop_message(buffer, type_length) ==
    LET type_bytes == PySlice(buffer, 0, type_length)
        has_type_bytes == Len(type_bytes) = type_length
        payload_length_length ==
            IF has_type_bytes /\ type_bytes = NO_DATA_TYPE THEN 0
            ELSE PAYLOAD_LENGTH_LENGTH
        payload_length_bytes ==
            PySlice(buffer, type_length, type_length + payload_length_length)
        has_payload_length_bytes ==
            has_type_bytes /\ Len(payload_length_bytes) = payload_length_length
        should_unpack == has_payload_length_bytes /\ payload_length_length # 0
        payload_length ==
            IF should_unpack THEN unpack_length(payload_length_bytes) ELSE 0
        payload_bytes ==
            PySlice(buffer, type_length + payload_length_length,
                    type_length + payload_length_length + payload_length)
        has_payload_bytes ==
            has_payload_length_bytes /\ Len(payload_bytes) = payload_length
        message_length == type_length + payload_length_length + payload_length
    IN  [has_popped |-> has_payload_bytes,
         message |-> Message(type_bytes, payload_length_bytes, payload_bytes),
         buffer |-> IF has_payload_bytes
                    THEN PySliceFrom(buffer, message_length)
                    ELSE buffer]

\* The loop of extract_messages written as an `if`: at most one pop per call
pop_loop_once(buffer, popped, num_startup, messages) ==
    LET type_length == IF popped < num_startup THEN START_MESSAGE_TYPE_LENGTH
                       ELSE LATER_MESSAGE_TYPE_LENGTH
        r == attempt_pop_message(buffer, type_length)
    IN  IF ~r.has_popped
        THEN [buffer |-> buffer, messages_popped |-> popped,
              messages |-> messages]
        ELSE [buffer |-> r.buffer, messages_popped |-> popped + 1,
              messages |-> Append(messages, r.message)]

\* The while loop of extract_messages: pop until a pop attempt fails
RECURSIVE pop_loop(_, _, _, _)
pop_loop(buffer, popped, num_startup, messages) ==
    LET pop_startup_message == popped < num_startup
        type_length == IF pop_startup_message THEN START_MESSAGE_TYPE_LENGTH
                       ELSE LATER_MESSAGE_TYPE_LENGTH
        r == attempt_pop_message(buffer, type_length)
    IN  IF ~r.has_popped
        THEN [buffer |-> buffer, messages_popped |-> popped,
              messages |-> messages]
        ELSE pop_loop(r.buffer, popped + 1, num_startup,
                      Append(messages, r.message))

\* extract_messages that pops from the incoming data alone and then puts
\* the retained bytes back in front of what is left
extract_messages_pop_incoming(buffer, popped, num_startup, data) ==
    LET r == pop_loop(data, popped, num_startup, <<>>)
    IN  [r EXCEPT !.buffer = buffer \o r.buffer]

\* extract_messages(data) on a parser whose state is (buffer, popped)
extract_messages(buffer, popped, num_startup, data) ==
    pop_loop(push_data(buffer, data), popped, num_startup, <<>>)

----------------------------------------------------------------------------
(* The streams a framer is driven with                                     *)

LaterTypes == {82}                      \* a type byte other than 'N'
ArbBytes == {0, 4, 78}
\* postgres_parser_processor builds its parsers with 2 and with 0
StartupCounts == {0, 2}

SeqsUpTo(S, n) == UNION { [1..k -> S] : k \in 0..n }

\* Payloads of a well-formed message; 'N' and NUL are bytes the framer
\* gives a meaning to elsewhere
Payloads == { <<>>, <<0>>, <<78>>, <<78, 0>> }

\* A startup-shaped message: length bytes and payload, no type byte
StartupShaped == { pack_length(Len(p)) \o p : p \in Payloads }

\* A later message: 'N' alone, or type byte, length bytes and payload
LaterShaped ==
    {NO_DATA_TYPE}
      \cup { <<t>> \o pack_length(Len(p)) \o p : t \in LaterTypes, p \in Payloads }

\* The concatenations of exactly n messages, the k-th one (counting from
\* `done`) startup-shaped while k < num_startup
RECURSIVE StreamsOf(_, _, _)
StreamsOf(n, done, num_startup) ==
    IF n = 0 THEN {<<>>}
    ELSE LET first == IF done < num_startup THEN StartupShaped ELSE LaterShaped
         IN  { m \o rest : m \in first,
                           rest \in StreamsOf(n - 1, done + 1, num_startup) }

WellFormedStreams(num_startup) ==
    UNION { StreamsOf(n, 0, num_startup) : n \in 0..MaxMsgs }

ArbitraryStreams == SeqsUpTo(ArbBytes, MaxArbLen)

----------------------------------------------------------------------------
(* Framer: state machine                                                   *)

\* The other components before any connection uses them
IdleFramer ==
    /\ num_startup_messages = 0
    /\ stream = <<>>
    /\ well_formed = TRUE
    /\ unread = <<>>
    /\ data_buffer = <<>>
    /\ messages_popped = 0
    /\ emitted = <<>>
    /\ at_eof = FALSE

NoCall == [dir |-> "none", message |-> <<>>, yielded |-> <<>>,
           to_server |-> <<>>, to_client |-> <<>>]

IdleAuth ==
    /\ server_salt = None
    /\ client_salt = None
    /\ call = NoCall
    /\ auth_error = "none"
    /\ twin_server_salt = None
    /\ twin_to_client = <<>>

NoToken == [segments |-> 0, signature |-> "none", payload |-> "none",
            sub |-> <<>>]

\* handle_downstream before it is spawned
IdleJwt ==
    /\ pc = "idle"
    /\ downstream_sock_ssl = FALSE
    /\ upstream_sock = FALSE
    /\ upstream_sock_ssl = FALSE
    /\ user = None
    /\ database = None
    /\ received_token = NoToken
    /\ raised = "none"
    /\ downstream_sent = <<>>
    /\ upstream_sent = <<>>
    /\ downstream_closed = FALSE
    /\ upstream_closed = FALSE
    /\ peer_eof = FALSE
    /\ downstream_received = <<>>

\* handle_client before a client connects
IdlePipe ==
    /\ client_stream = <<>>
    /\ client_unread = <<>>
    /\ server_stream = <<>>
    /\ server_unread = <<>>
    /\ c2s_parser = [data_buffer |-> <<>>, messages_popped |-> 0]
    /\ s2c_parser = [data_buffer |-> <<>>, messages_popped |-> 0]
    /\ c2s_out = <<>>
    /\ s2c_out = <<>>
    /\ server_written = <<>>
    /\ client_written = <<>>
    /\ client_task = "idle"
    /\ server_task = "idle"
    /\ closed = FALSE

InitFramer ==
    /\ IdleAuth
    /\ IdleJwt
    /\ IdlePipe
    /\ num_startup_messages \in StartupCounts
    /\ \/ /\ stream \in WellFormedStreams(num_startup_messages)
          /\ well_formed = TRUE
       \/ /\ stream \in ArbitraryStreams
          /\ well_formed = FALSE
    /\ unread = stream
    /\ data_buffer = <<>>
    /\ messages_popped = 0
    /\ emitted = <<>>
    /\ at_eof = FALSE

\* on_read: reader.read returned the next k >= 1 bytes of the stream and
\* they are given to extract_messages.
Push ==
    \E k \in 1..Len(unread) :
        LET data == SubSeq(unread, 1, k)
            r == extract_messages(data_buffer, messages_popped,
                                  num_startup_messages, data)
        IN  /\ ~at_eof
            /\ data_buffer' = r.buffer
            /\ messages_popped' = r.messages_popped
            /\ emitted' = emitted \o r.messages
            /\ unread' = SubSeq(unread, k + 1, Len(unread))
            /\ UNCHANGED <<num_startup_messages, stream, well_formed, at_eof>>
            /\ UNCHANGED <<authVars, jwtVars, pipeVars>>

\* on_read: at EOF reader.read returns b"", which is pushed as well, and
\* the loop ends.
PushEOF ==
    LET r == extract_messages(data_buffer, messages_popped,
                              num_startup_messages, <<>>)
    IN  /\ ~at_eof
        /\ unread = <<>>
        /\ data_buffer' = r.buffer
        /\ messages_popped' = r.messages_popped
        /\ emitted' = emitted \o r.messages
        /\ at_eof' = TRUE
        /\ UNCHANGED <<num_startup_messages, stream, unread, well_formed>>
        /\ UNCHANGED <<authVars, jwtVars, pipeVars>>

NextFramer == Push \/ PushEOF

SpecFramer == InitFramer /\ [][NextFramer]_vars

----------------------------------------------------------------------------
(* Framer: properties                                                      *)

IsPrefix(s, t) == Len(s) <= Len(t) /\ SubSeq(t, 1, Len(s)) = s

PushedWhole ==
    extract_messages(<<>>, 0, num_startup_messages, stream).messages

\* C2 -- Framer chunk-independence.  For a valid stream, the Message triples
\* emitted over the pushes so far are a prefix of, and after the last chunk
\* equal to, the triples emitted when the stream is pushed in a single call.
FramerChunkIndependence ==
    well_formed =>
        /\ IsPrefix(emitted, PushedWhole)
        /\ unread = <<>> => emitted = PushedWhole

\* The chunks so far ended inside the length bytes of the second of three
\* messages: one message is out, two more are in the stream.
FramerChunkIndependenceWitness ==
    /\ well_formed
    /\ Len(emitted) = 1
    /\ Len(PushedWhole) = 3
    /\ Len(data_buffer) \in 2..3
    /\ unread # <<>>

NoDataMessage == Message(NO_DATA_TYPE, <<>>, <<>>)

\* C3 -- Framer 'N' exception.  After num_startup_messages pops a buffered
\* type byte 'N' is popped at once as Message('N', '', ''), taking one byte
\* whatever follows it, so no push leaves an 'N' at the head of the buffer
\* and every emitted 'N' message is that triple; the first
\* num_startup_messages messages have no type byte and four length bytes,
\* also when their first byte is 'N'.
FramerNoData ==
    /\ LET r == attempt_pop_message(NO_DATA_TYPE \o data_buffer,
                                    LATER_MESSAGE_TYPE_LENGTH)
       IN  /\ r.has_popped
           /\ r.message = NoDataMessage
           /\ r.buffer = data_buffer
    /\ (messages_popped >= num_startup_messages /\ data_buffer # <<>>)
           => Head(data_buffer) # 78
    /\ \A i \in 1..Len(emitted) :
           IF i <= num_startup_messages
           THEN /\ emitted[i].type = <<>>
                /\ Len(emitted[i].payload_length) = PAYLOAD_LENGTH_LENGTH
           ELSE /\ Len(emitted[i].type) = 1
                /\ emitted[i].type = NO_DATA_TYPE => emitted[i] = NoDataMessage
    /\ (messages_popped < num_startup_messages
           /\ Len(data_buffer) \in 1..3 /\ Head(data_buffer) = 78)
           => ~attempt_pop_message(data_buffer,
                                   START_MESSAGE_TYPE_LENGTH).has_popped

\* The byte 'N' came right after two startup messages, the second with
\* the payload 'N', and it alone came out as the third message.
FramerNoDataWitness ==
    /\ num_startup_messages = 2
    /\ messages_popped = 3
    /\ emitted[2].payload = <<78>>
    /\ emitted[2].type = <<>>
    /\ emitted[3] = NoDataMessage
    /\ stream[Len(stream)] = 78
    /\ unread = <<>>
    /\ data_buffer = <<>>

----------------------------------------------------------------------------
(* app.py: md5, md5_salted                                                 *)

HexDigit(d) == IF d < 10 THEN 48 + d ELSE 87 + d

\* The mix of the bytes data[i..] into h
RECURSIVE Mix(_, _, _)
Mix(h, data, i) ==
    IF i > Len(data) THEN h
    ELSE Mix((h * 127 + data[i] + 1) % 16777216, data, i + 1)

\* hashlib.md5(data).hexdigest().encode("utf-8"): 32 lowercase hex digits
\* that depend on every byte of data and on its length.  MD5's compression
\* function is replaced by a 24-bit mix, which has no collision among the
\* byte strings hashed in this model (Md5Inputs, checked by
\* Md5CollisionFree).
md5(data) ==
    LET h == Mix(0, data, 1)
        n == Len(data) % 256
    IN  << HexDigit(n \div 16), HexDigit(n % 16),
           HexDigit((h \div 1048576) % 16), HexDigit((h \div 65536) % 16),
           HexDigit((h \div 4096) % 16), HexDigit((h \div 256) % 16),
           HexDigit((h \div 16) % 16), HexDigit(h % 16) >>
          \o [i \in 1..24 |-> 48]

\* md5_salted
md5_salted(password, username, salt) ==
    md5(md5(password \o username) \o salt)

----------------------------------------------------------------------------
(* app.py: postgres_auth_processor                                         *)

correct_client_password ==
    <<112, 114, 111, 120, 121, 95, 109, 121, 115, 101, 99, 114, 101, 116>>
correct_server_password == <<109, 121, 115, 101, 99, 114, 101, 116>>
correct_client_username ==
    <<112, 114, 111, 120, 121, 95, 112, 111, 115, 116, 103, 114, 101, 115>>
correct_server_username == <<112, 111, 115, 116, 103, 114, 101, 115>>

USER_KEY == <<117, 115, 101, 114>>      \* b'user'
MD5_PREFIX == <<109, 100, 53>>          \* b"md5"
MD5_REQUEST == <<0, 0, 0, 5>>           \* b"\x00\x00\x00\x05"
TYPE_p == <<112>>
TYPE_R == <<82>>

\* The last index of the run of non-NUL bytes of s that starts at index i
\* (i - 1 when there is none)
RECURSIVE RunEnd(_, _)
RunEnd(s, i) ==
    IF i > Len(s) \/ s[i] = 0 THEN i - 1 ELSE RunEnd(s, i + 1)

\* re.compile(b"\x00([^\x00]+)\x00([^\x00]*)").findall(s), scanning from
\* index i: the <<key, value>> pairs of the non-overlapping matches
RECURSIVE findall_pairs(_, _)
findall_pairs(s, i) ==
    IF i > Len(s) THEN <<>>
    ELSE LET key_end == RunEnd(s, i + 1)
             value_end == RunEnd(s, key_end + 2)
         IN  IF s[i] = 0 /\ key_end >= i + 1 /\ key_end + 1 <= Len(s)
             THEN << << SubSeq(s, i + 1, key_end),
                        SubSeq(s, key_end + 2, value_end) >> >>
                    \o findall_pairs(s, value_end + 1)
             ELSE findall_pairs(s, i + 1)

HasKey(pairs_list, key) ==
    \E i \in 1..Len(pairs_list) : pairs_list[i][1] = key

\* dict(pairs_list)[key]: the value of the last pair with that key
DictGet(pairs_list, key) ==
    LET last == CHOOSE i \in 1..Len(pairs_list) :
                    /\ pairs_list[i][1] = key
                    /\ \A j \in (i + 1)..Len(pairs_list) : pairs_list[j][1] # key
    IN  pairs_list[last][2]

\* b"".join(flatten((key, b"\x00", pairs_to_send[key], b"\x00")
\*                  for key, _ in pairs_list))
\* where pairs_to_send = {**dict(all_pairs), b'user': server_username}
RECURSIVE join_pairs(_, _, _)
join_pairs(pairs_list, all_pairs, server_username) ==
    IF pairs_list = <<>> THEN <<>>
    ELSE LET key == Head(pairs_list)[1]
             value == IF key = USER_KEY THEN server_username
                      ELSE DictGet(all_pairs, key)
         IN  key \o <<0>> \o value \o <<0>>
               \o join_pairs(Tail(pairs_list), all_pairs, server_username)

\* to_server_startup; token is secrets.token_bytes(32).  pairs[b'user']
\* raises KeyError when the payload has no user key.
to_server_startup(message, token) ==
    LET pairs_list == findall_pairs(message.payload, 1)
        incorrect_user == md5(token)
    IN  IF ~HasKey(pairs_list, USER_KEY)
        THEN [raised |-> "KeyError", message |-> message]
        ELSE LET client_username == DictGet(pairs_list, USER_KEY)
                 server_username ==
                     IF client_username = correct_client_username
                     THEN correct_server_username ELSE incorrect_user
                 new_payload ==
                     <<0>> \o join_pairs(pairs_list, pairs_list, server_username)
                           \o <<0>>
             IN  [raised |-> "none",
                  message |-> [message EXCEPT
                      !.payload_length = pack_length(Len(new_payload)),
                      !.payload = new_payload]]

\* to_server_md5_response that salts the expected client digest with the
\* server's salt
to_server_md5_response_wrong_salt(message, ssalt, csalt, token) ==
    IF csalt = None \/ ssalt = None
    THEN [raised |-> "TypeError", message |-> message]
    ELSE LET client_md5 == PySlice(message.payload, 3, -1)
             correct_client_md5 ==
                 md5_salted(correct_client_password, correct_client_username,
                            ssalt)
             correct_server_md5 ==
                 md5_salted(correct_server_password, correct_server_username,
                            ssalt)
             server_md5 == IF client_md5 = correct_client_md5
                           THEN correct_server_md5 ELSE md5(token)
         IN  [raised |-> "none",
              message |-> [message EXCEPT
                  !.payload = MD5_PREFIX \o server_md5 \o <<0>>]]

\* to_server_md5_response; token is secrets.token_bytes(32).  Concatenating
\* bytes and None raises TypeError while no challenge has set the salts.
to_server_md5_response(message, ssalt, csalt, token) ==
    IF csalt = None \/ ssalt = None
    THEN [raised |-> "TypeError", message |-> message]
    ELSE LET client_md5 == PySlice(message.payload, 3, -1)
             correct_client_md5 ==
                 md5_salted(correct_client_password, correct_client_username,
                            csalt)
             correct_server_md5 ==
                 md5_salted(correct_server_password, correct_server_username,
                            ssalt)
             md5_incorrect == md5(token)
             server_md5 == IF client_md5 = correct_client_md5
                           THEN correct_server_md5 ELSE md5_incorrect
         IN  [raised |-> "none",
              message |-> [message EXCEPT
                  !.payload = MD5_PREFIX \o server_md5 \o <<0>>]]

is_startup(message) ==
    message.type = <<>> /\ message.payload # SSL_REQUEST_PAYLOAD
is_md5_response(message) ==
    message.type = TYPE_p /\ PySlice(message.payload, 0, 3) = MD5_PREFIX
is_md5_request(message) ==
    message.type = TYPE_R /\ PySlice(message.payload, 0, 4) = MD5_REQUEST

\* The body of the loop of c2s_from_outside that rewrites every 'p' message
c2s_message_to_yield_any_p(message, ssalt, csalt, token) ==
    IF is_startup(message) THEN to_server_startup(message, token)
    ELSE IF message.type = TYPE_p
         THEN to_server_md5_response(message, ssalt, csalt, token)
         ELSE [raised |-> "none", message |-> message]

\* The body of the loop of c2s_from_outside: message_to_yield
c2s_message_to_yield(message, ssalt, csalt, token) ==
    IF is_startup(message) THEN to_server_startup(message, token)
    ELSE IF is_md5_response(message)
         THEN to_server_md5_response(message, ssalt, csalt, token)
         ELSE [raised |-> "none", message |-> message]

\* to_client_md5_request that forwards the server's challenge as it is
to_client_md5_request_unchanged(message, csalt) == message

\* to_client_md5_request
to_client_md5_request(message, csalt) ==
    [message EXCEPT !.payload = PySlice(message.payload, 0, 4) \o csalt]

\* The body of the loop of s2c_from_outside; fresh is secrets.token_bytes(4)
s2c_message_to_yield(message, ssalt, csalt, fresh) ==
    LET new_server_salt == IF is_md5_request(message)
                           THEN PySlice(message.payload, 4, 8) ELSE ssalt
        new_client_salt == IF is_md5_request(message) THEN fresh ELSE csalt
    IN  [server_salt |-> new_server_salt,
         client_salt |-> new_client_salt,
         message |-> IF is_md5_request(message)
                     THEN to_client_md5_request(message, new_client_salt)
                     ELSE message]

----------------------------------------------------------------------------
(* The messages and random values the MD5 rewriter is driven with          *)

\* secrets.token_bytes(32)
Tokens == { [i \in 1..32 |-> b] : b \in {1, 2} }
\* secrets.token_bytes(4)
ClientSalts == { <<1, 1, 1, 1>>, <<2, 2, 2, 2>> }
\* the salt of a server's challenge
ServerSalts == { <<1, 1, 1, 1>>, <<9, 9, 9, 9>> }

\* A message as the framer emits it: the length bytes declare the payload
Framed(type, payload) == Message(type, pack_length(Len(payload)), payload)

SSLRequest == Framed(<<>>, SSL_REQUEST_PAYLOAD)

KEY_a == <<97>>
UserPairs == { <<USER_KEY, correct_client_username>>, <<USER_KEY, <<120>>>> }
OtherPairs == { <<KEY_a, <<120>>>>, <<KEY_a, <<121>>>> }

\* The pair lists of a StartupMessage: up to MaxOtherPairs other pairs with
\* no user pair, with one before or after them, or two user pairs
StartupPairLists ==
    LET others == SeqsUpTo(OtherPairs, MaxOtherPairs)
    IN  others
          \cup UNION { { <<u>> \o o, o \o <<u>> } :
                         u \in UserPairs, o \in others }
          \cup { <<u, v>> : u \in UserPairs, v \in UserPairs }

RECURSIVE EncodePairs(_)
EncodePairs(pairs) ==
    IF pairs = <<>> THEN <<>>
    ELSE Head(pairs)[1] \o <<0>> \o Head(pairs)[2] \o <<0>>
           \o EncodePairs(Tail(pairs))

\* A StartupMessage: protocol version 3.0, the pairs, a closing NUL
StartupMessages ==
    { Framed(<<>>, <<0, 3, 0, 0>> \o EncodePairs(pairs) \o <<0>>) :
        pairs \in StartupPairLists }

\* The digests a client may answer with: right or wrong credentials, the
\* current, an older or the server's salt, or no digest at all
ClientDigests ==
    { md5_salted(correct_client_password, correct_client_username, salt) :
        salt \in ClientSalts \cup ServerSalts }
      \cup { md5_salted(correct_server_password, correct_server_username, salt) :
               salt \in ServerSalts }
      \cup { md5(<<120>>), <<>> }

Md5Responses ==
    { Framed(TYPE_p, MD5_PREFIX \o digest \o trailer) :
        digest \in ClientDigests, trailer \in {<<0>>} }

OtherClientMessages ==
    { Framed(<<81>>, <<120, 0>>),           \* a query
      Framed(TYPE_p, <<112, 119, 0>>),      \* a cleartext password
      Framed(TYPE_R, MD5_REQUEST \o <<9, 9, 9, 9>>) }

ClientMessages ==
    {SSLRequest} \cup StartupMessages \cup Md5Responses \cup OtherClientMessages

Md5Requests ==
    { Framed(TYPE_R, MD5_REQUEST \o salt) :
        salt \in ServerSalts \cup { <<7, 7>>, <<7, 7, 7, 7, 7>> } }

OtherServerMessages ==
    { Message(NO_DATA_TYPE, <<>>, <<>>),
      Framed(TYPE_R, <<0, 0, 0, 0>>),       \* AuthenticationOk
      Framed(TYPE_R, <<0, 0, 0, 3>>),       \* cleartext password request
      Framed(<<69>>, <<83, 0>>),            \* an ErrorResponse
      Framed(TYPE_p, MD5_PREFIX \o md5(<<120>>) \o <<0>>) }

ServerMessages == Md5Requests \cup OtherServerMessages

\* The strings hashed in this model
Md5Inputs ==
    LET inner == { correct_client_password \o correct_client_username,
                   correct_server_password \o correct_server_username }
    IN  inner \cup Tokens \cup { <<120>> }
          \cup { md5(x) \o salt :
                   x \in inner,
                   salt \in ClientSalts \cup ServerSalts
                              \cup { <<7, 7>>, <<7, 7, 7, 7>> } }

Md5CollisionFree ==
    \A x, y \in Md5Inputs : md5(x) = md5(y) => x = y

----------------------------------------------------------------------------
(* MD5 rewriter: state machine                                             *)

InitAuth == IdleFramer /\ IdleAuth /\ IdleJwt /\ IdlePipe

\* What a call leaves behind: the message given, the messages passed on to
\* to_c2s_inner / to_s2c_inner, and the bytes that the echo processor and
\* the *_from_inside chain then write to the server or to the client
Call(dir, message, yielded) ==
    [dir |-> dir, message |-> message, yielded |-> yielded,
     to_server |-> IF dir = "c2s" THEN JoinFlatten(yielded) ELSE <<>>,
     to_client |-> IF dir = "s2c" THEN JoinFlatten(yielded) ELSE <<>>]

\* c2s_from_outside([message]).  An exception leaves the reader task and
\* ends handle_client.  Nothing on this path writes to the client, in the
\* twin run either.
C2SFromOutside ==
    \E message \in ClientMessages, token \in Tokens :
        LET r == c2s_message_to_yield(message, server_salt, client_salt, token)
        IN  /\ auth_error = "none"
            /\ auth_error' = r.raised
            /\ call' = Call("c2s", message,
                            IF r.raised = "none" THEN <<r.message>> ELSE <<>>)
            /\ twin_to_client' = <<>>
            /\ UNCHANGED <<server_salt, client_salt, twin_server_salt>>
            /\ UNCHANGED <<framerVars, jwtVars, pipeVars>>

\* The same message with the four salt bytes of an MD5 challenge replaced
WithSalt(message, salt) ==
    IF is_md5_request(message) /\ Len(message.payload) >= 8
    THEN [message EXCEPT !.payload =
             PySlice(message.payload, 0, 4) \o salt
               \o PySliceFrom(message.payload, 8)]
    ELSE message

\* s2c_from_outside([message]); the twin run is given the same message
\* with a server salt other than the message's and draws the same random
\* client salt
S2CFromOutside ==
    \E message \in ServerMessages, fresh \in ClientSalts :
        LET other_salt == CHOOSE salt \in ServerSalts :
                              salt # PySlice(message.payload, 4, 8)
            twin_message == WithSalt(message, other_salt)
            r == s2c_message_to_yield(message, server_salt, client_salt, fresh)
            t == s2c_message_to_yield(twin_message, twin_server_salt,
                                      client_salt, fresh)
        IN  /\ auth_error = "none"
            /\ server_salt' = r.server_salt
            /\ client_salt' = r.client_salt
            /\ twin_server_salt' = t.server_salt
            /\ call' = Call("s2c", message, <<r.message>>)
            /\ twin_to_client' = JoinFlatten(<<t.message>>)
            /\ UNCHANGED auth_error
            /\ UNCHANGED <<framerVars, jwtVars, pipeVars>>

NextAuth == C2SFromOutside \/ S2CFromOutside

SpecAuth == InitAuth /\ [][NextAuth]_vars

----------------------------------------------------------------------------
(* MD5 rewriter: properties                                                *)

\* A message the rewriter has no rule for, whichever way it travels
IsOrdinary(message) ==
    /\ ~is_startup(message)
    /\ ~is_md5_request(message)
    /\ ~is_md5_response(message)

\* C4 -- MD5 rewriter pass-through.  Every call of c2s_from_outside or
\* s2c_from_outside with a message that is not a startup message, not an
\* 'R' message starting 00 00 00 05 and not a 'p' message starting "md5"
\* passes it on with type, length bytes and payload unchanged and leaves
\* server_salt and client_salt as they were.
AuthPassThrough ==
    [][ (call'.dir # "none" /\ IsOrdinary(call'.message))
          => /\ call'.yielded = <<call'.message>>
             /\ auth_error' = "none"
             /\ UNCHANGED <<server_salt, client_salt>> ]_vars

\* A cleartext 'p' password message went through unchanged after a
\* challenge had set the salts.
AuthPassThroughWitness ==
    /\ call.dir = "c2s"
    /\ call.message = Framed(TYPE_p, <<112, 119, 0>>)
    /\ call.yielded = <<call.message>>
    /\ client_salt \in ClientSalts
    /\ server_salt \in ServerSalts

CorrectClientMd5 ==
    md5_salted(correct_client_password, correct_client_username, client_salt)
CorrectServerMd5 ==
    md5_salted(correct_server_password, correct_server_username, server_salt)

\* C5 -- MD5 response gate.  For a 'p' "md5" message from the client after a
\* challenge, the digest passed on to the server is the server-credential
\* digest over the captured server salt if and only if the client's digest
\* is the proxy-credential digest over the client salt last sent to the
\* client; otherwise it is the digest of fresh random bytes, and not the
\* server-credential digest.
AuthMd5Gate ==
    (call.dir = "c2s" /\ is_md5_response(call.message) /\ client_salt # None)
      => /\ auth_error = "none"
         /\ Len(call.yielded) = 1
         /\ LET forwarded == call.yielded[1].payload
                digest == PySlice(forwarded, 3, -1)
                matches == PySlice(call.message.payload, 3, -1) = CorrectClientMd5
            IN  /\ forwarded = MD5_PREFIX \o digest \o <<0>>
                /\ (digest = CorrectServerMd5) <=> matches
                /\ ~matches => \E token \in Tokens : digest = md5(token)

\* A client that answered with the right digest over an older client salt
\* was turned away, and one with the current salt was let through.
AuthMd5GateWitness ==
    /\ call.dir = "c2s"
    /\ is_md5_response(call.message)
    /\ client_salt \in ClientSalts
    /\ server_salt \in ServerSalts
    /\ client_salt # server_salt
    /\ PySlice(call.message.payload, 3, -1) = CorrectClientMd5
    /\ PySlice(call.yielded[1].payload, 3, -1) = CorrectServerMd5

\* C6 -- Server-salt confidentiality.  What a call writes to the client is
\* the same in the run whose server challenge carries another salt (same
\* messages otherwise, same random client salt), and the challenge passed
\* on to the client carries the fresh client salt after its first four
\* bytes.
AuthSaltConfidential ==
    /\ call.to_client = twin_to_client
    /\ (call.dir = "s2c" /\ is_md5_request(call.message))
         => /\ client_salt \in ClientSalts
            /\ call.yielded[1].payload
                 = PySlice(call.message.payload, 0, 4) \o client_salt
            /\ call.yielded[1].type = call.message.type
            /\ call.yielded[1].payload_length = call.message.payload_length

\* A challenge was passed on while the two runs hold different server
\* salts, neither of them the client salt.
AuthSaltConfidentialWitness ==
    /\ call.dir = "s2c"
    /\ is_md5_request(call.message)
    /\ server_salt \in ServerSalts
    /\ twin_server_salt \in ServerSalts
    /\ server_salt # twin_server_salt
    /\ client_salt # server_salt
    /\ call.to_client # <<>>

\* C7 -- StartupMessage rewrite.  For a startup message that was passed on,
\* the forwarded pairs are the client's pairs in their order; user is
\* "postgres" when the client's user is "proxy_postgres" and the digest of
\* random bytes otherwise; every other pair has its original value; the
\* length bytes declare the new payload.
AuthStartupRewrite ==
    (call.dir = "c2s" /\ is_startup(call.message) /\ auth_error = "none")
      => LET original == findall_pairs(call.message.payload, 1)
             forwarded == findall_pairs(call.yielded[1].payload, 1)
             client_user == DictGet(original, USER_KEY)
         IN  /\ Len(forwarded) = Len(original)
             /\ call.yielded[1].payload_length
                  = pack_length(Len(call.yielded[1].payload))
             /\ \A i \in 1..Len(original) :
                  /\ forwarded[i][1] = original[i][1]
                  /\ IF original[i][1] = USER_KEY
                     THEN IF client_user = correct_client_username
                          THEN forwarded[i][2] = correct_server_username
                          ELSE \E token \in Tokens : forwarded[i][2] = md5(token)
                     ELSE forwarded[i][2] = original[i][2]

----------------------------------------------------------------------------
(* jwt_postgresql_proxy.py: constants and struct formats                   *)

TLS_REQUEST == <<0, 0, 0, 8, 4, 210, 22, 47>>
TLS_RESPONSE == <<83>>                          \* b'S'
PROTOCOL_VERSION == 196608
AUTHENTICATION_CLEARTEXT_PASSWORD == 3
AUTHENTICATION_OK == 0
PASSWORD_RESPONSE == <<112>>                    \* b'p'
MAX_IN_MEMORY_MESSAGE_LENGTH == 66560

\* struct.Struct('!L').pack(n)
INT_pack(n) ==
    << (n \div 16777216) % 256, (n \div 65536) % 256,
       (n \div 256) % 256, n % 256 >>

\* struct.Struct('!L').unpack(b)[0]
INT_unpack(b) == b[1] * 16777216 + b[2] * 65536 + b[3] * 256 + b[4]

\* MESSAGE_HEADER.pack(tag, length), struct '!cL'
MESSAGE_HEADER_pack(tag, length) == tag \o INT_pack(length)

\* STARTUP_MESSAGE_HEADER.pack(length, version), struct '!LL'
STARTUP_MESSAGE_HEADER_pack(length, version) ==
    INT_pack(length) \o INT_pack(version)

\* STARTUP_MESSAGE_HEADER.unpack(header)
STARTUP_MESSAGE_HEADER_unpack(header) ==
    << INT_unpack(SubSeq(header, 1, 4)), INT_unpack(SubSeq(header, 5, 8)) >>

\* What downstream_send_error, downstream_convert_to_ssl and
\* downstream_startup send: MESSAGE_HEADER.pack(b'E', 4 + 1) + b'\x00'
minimal_error == MESSAGE_HEADER_pack(<<69>>, 4 + 1) \o <<0>>

\* downstream_send_auth_error: S FATAL, M Authentication failed, C 28P01
auth_error_message ==
    LET failed ==
            <<83>> \o <<70, 65, 84, 65, 76, 0>>
              \o <<77>> \o <<65, 117, 116, 104, 101, 110, 116, 105, 99, 97,
                             116, 105, 111, 110, 32, 102, 97, 105, 108, 101,
                             100, 0>>
              \o <<67>> \o <<50, 56, 80, 48, 49, 0>>
              \o <<0>>
    IN  MESSAGE_HEADER_pack(<<69>>, 4 + Len(failed)) \o failed

\* The password request and AuthenticationOk of downstream_authenticate
authentication_message(code) ==
    MESSAGE_HEADER_pack(<<82>>, 4 + 4) \o INT_pack(code)

\* What upstream_startup sends
upstream_startup_message(u, d) ==
    LET pairs == <<117, 115, 101, 114, 0>> \o u \o <<0>>
                   \o <<100, 97, 116, 97, 98, 97, 115, 101, 0>> \o d \o <<0>>
                   \o <<0>>
    IN  STARTUP_MESSAGE_HEADER_pack(8 + Len(pairs), PROTOCOL_VERSION) \o pairs

\* re.compile(b'([^\x00]+)\x00([^\x00]*)').findall(s), scanning from i
RECURSIVE findall_startup_pairs(_, _)
findall_startup_pairs(s, i) ==
    IF i > Len(s) THEN <<>>
    ELSE LET key_end == RunEnd(s, i)
             value_end == RunEnd(s, key_end + 2)
         IN  IF key_end >= i /\ key_end + 1 <= Len(s)
             THEN << << SubSeq(s, i, key_end),
                        SubSeq(s, key_end + 2, value_end) >> >>
                    \o findall_startup_pairs(s, value_end + 1)
             ELSE findall_startup_pairs(s, i + 1)

DATABASE_KEY == <<100, 97, 116, 97, 98, 97, 115, 101>>     \* b'database'

\* The token check of downstream_authenticate that forgets to compare sub
\* with the claimed user
verify_token_any_sub(tok, claimed_user) ==
    IF tok.segments # 3 THEN "ValueError"
    ELSE IF tok.signature = "bad_base64" THEN "binascii.Error"
    ELSE IF tok.signature # "valid" THEN "DownstreamAuthenticationError"
    ELSE IF tok.payload = "bad_base64" THEN "binascii.Error"
    ELSE IF tok.payload = "not_json" THEN "JSONDecodeError"
    ELSE IF tok.payload = "no_sub" THEN "KeyError"
    ELSE "none"

\* downstream_authenticate from password.split(b'.') to the sub comparison:
\* the exception raised, or "none".  A token is the number of its
\* dot-separated segments, what its signature segment is (bad base64, or a
\* signature that public_key.verify accepts or rejects for header.payload)
\* and what its payload segment decodes to (bad base64, not JSON, a JSON
\* object without sub, or an object with the value sub).
verify_token(tok, claimed_user) ==
    IF tok.segments # 3 THEN "ValueError"
    ELSE IF tok.signature = "bad_base64" THEN "binascii.Error"
    ELSE IF tok.signature # "valid" THEN "DownstreamAuthenticationError"
    ELSE IF tok.payload = "bad_base64" THEN "binascii.Error"
    ELSE IF tok.payload = "not_json" THEN "JSONDecodeError"
    ELSE IF tok.payload = "no_sub" THEN "KeyError"
    ELSE IF claimed_user # tok.sub THEN "DownstreamAuthenticationError"
    ELSE "none"

\* The except clauses of handle_downstream
Caught == {"DownstreamAuthenticationError", "ProtocolError"}

\* The handler sends the minimal error for a DownstreamAuthenticationError
\* as well
except_message_minimal(exception) == minimal_error

\* What the except clause for the exception sends
except_message(exception) ==
    IF exception = "DownstreamAuthenticationError" THEN auth_error_message
    ELSE minimal_error

----------------------------------------------------------------------------
(* The peers of the JWT handshake                                          *)

Users == { <<97>>, <<98>> }                 \* 'a', 'b'
Databases == { <<100>>, <<101>> }           \* 'd', 'e'

\* The first eight bytes a client sends
FirstChunks == { TLS_REQUEST, <<0, 0, 0, 8, 0, 3, 0, 0>> }

StartupPairs(pairs) == EncodePairs(pairs) \o <<0>>

\* The StartupMessages a client sends: header and the rest.  Whole ones
\* with or without user and database, one of another protocol version,
\* and headers that declare too much or less than the header itself.
StartupInputs ==
    LET bodies ==
            { StartupPairs(<< <<USER_KEY, u>>, <<DATABASE_KEY, d>> >>) :
                u \in Users, d \in Databases }
              \cup { StartupPairs(<< <<USER_KEY, u>> >>) : u \in Users }
              \cup { StartupPairs(<< <<DATABASE_KEY, d>> >>) : d \in Databases }
    IN  { [header |-> STARTUP_MESSAGE_HEADER_pack(8 + Len(b), PROTOCOL_VERSION),
           rest |-> b] : b \in bodies }
          \cup { [header |-> STARTUP_MESSAGE_HEADER_pack(8 + Len(b), 196609),
                  rest |-> b] : b \in bodies }
          \cup { [header |-> STARTUP_MESSAGE_HEADER_pack(n, v),
                  rest |-> <<>>] :
                   n \in {4, 8, MAX_IN_MEMORY_MESSAGE_LENGTH + 1},
                   v \in {PROTOCOL_VERSION, 196609} }

JwtTokens ==
    [segments : {2, 3},
     signature : {"valid", "invalid", "bad_base64"},
     payload : {"object"},
     sub : Users]
      \cup [segments : {3},
            signature : {"valid", "invalid"},
            payload : {"bad_base64", "not_json", "no_sub"},
            sub : {<<>>}]

\* The password messages a client sends: tag, declared length, token
PasswordInputs ==
    [tag : {PASSWORD_RESPONSE}, payload_length : {100}, tok : JwtTokens]
      \cup [tag : {<<81>>}, payload_length : {100}, tok : {NoToken}]
      \cup [tag : {PASSWORD_RESPONSE},
            payload_length : {3, MAX_IN_MEMORY_MESSAGE_LENGTH + 1},
            tok : {NoToken}]

----------------------------------------------------------------------------
(* JWT handshake: state machine of one handle_downstream                    *)

InitJwt ==
    /\ IdleFramer
    /\ IdleAuth
    /\ IdlePipe
    /\ pc = "downstream_convert_to_ssl"
    /\ downstream_sock_ssl = FALSE
    /\ upstream_sock = FALSE
    /\ upstream_sock_ssl = FALSE
    /\ user = None
    /\ database = None
    /\ received_token = NoToken
    /\ raised = "none"
    /\ downstream_sent = <<>>
    /\ upstream_sent = <<>>
    /\ downstream_closed = FALSE
    /\ upstream_closed = FALSE
    /\ peer_eof = FALSE
    /\ downstream_received = <<>>

\* sendall on the downstream socket: over TLS once downstream_sock_ssl is set
SendDownstream(data) ==
    downstream_sent' =
        Append(downstream_sent, [tls |-> downstream_sock_ssl, data |-> data])

\* An exception leaves the try block: to an except clause if one matches,
\* else straight to finally
Raise(exception) ==
    /\ raised' = exception
    /\ pc' = IF exception \in Caught THEN "except" ELSE "finally"

\* downstream_convert_to_ssl
DownstreamConvertToSsl ==
    /\ pc = "downstream_convert_to_ssl"
    /\ \E chunk \in FirstChunks, handshake_ok \in BOOLEAN :
        /\ downstream_received' = Append(downstream_received, chunk)
        /\ IF chunk # TLS_REQUEST
           THEN /\ SendDownstream(minimal_error)
                /\ Raise("ProtocolError")
                /\ UNCHANGED downstream_sock_ssl
           ELSE /\ SendDownstream(TLS_RESPONSE)
                /\ IF handshake_ok
                   THEN /\ downstream_sock_ssl' = TRUE
                        /\ pc' = "downstream_startup"
                        /\ UNCHANGED raised
                   ELSE /\ Raise("SSLError")
                        /\ UNCHANGED downstream_sock_ssl
    /\ UNCHANGED <<upstream_sock, upstream_sock_ssl, user, database,
                   received_token, upstream_sent, downstream_closed,
                   upstream_closed, peer_eof>>
    /\ UNCHANGED <<framerVars, authVars, pipeVars>>

\* downstream_startup.  recv_exactly with a negative amount calls recv with
\* a negative size, which raises ValueError.
DownstreamStartup ==
    /\ pc = "downstream_startup"
    /\ \E m \in StartupInputs :
        LET unpacked == STARTUP_MESSAGE_HEADER_unpack(m.header)
            startup_message_len == unpacked[1]
            protocol_version == unpacked[2]
            pairs == findall_startup_pairs(m.rest, 1)
        IN  IF startup_message_len > MAX_IN_MEMORY_MESSAGE_LENGTH
            THEN /\ Raise("ProtocolError")
                 /\ downstream_received' = Append(downstream_received, m.header)
                 /\ UNCHANGED <<downstream_sent, user, database>>
            ELSE IF protocol_version # PROTOCOL_VERSION
            THEN /\ SendDownstream(minimal_error)
                 /\ Raise("ProtocolError")
                 /\ downstream_received' = Append(downstream_received, m.header)
                 /\ UNCHANGED <<user, database>>
            ELSE IF startup_message_len - 8 < 0
            THEN /\ Raise("ValueError")
                 /\ downstream_received' = Append(downstream_received, m.header)
                 /\ UNCHANGED <<downstream_sent, user, database>>
            ELSE IF ~HasKey(pairs, USER_KEY) \/ ~HasKey(pairs, DATABASE_KEY)
            THEN /\ Raise("KeyError")
                 /\ downstream_received' =
                        downstream_received \o <<m.header, m.rest>>
                 /\ UNCHANGED <<downstream_sent, user, database>>
            ELSE /\ user' = DictGet(pairs, USER_KEY)
                 /\ database' = DictGet(pairs, DATABASE_KEY)
                 /\ downstream_received' =
                        downstream_received \o <<m.header, m.rest>>
                 /\ pc' = "downstream_authenticate"
                 /\ UNCHANGED <<downstream_sent, raised>>
    /\ UNCHANGED <<downstream_sock_ssl, upstream_sock, upstream_sock_ssl,
                   received_token, upstream_sent, downstream_closed,
                   upstream_closed, peer_eof>>
    /\ UNCHANGED <<framerVars, authVars, pipeVars>>

\* downstream_authenticate, up to the password request being sent
DownstreamRequestPassword ==
    /\ pc = "downstream_authenticate"
    /\ SendDownstream(authentication_message(AUTHENTICATION_CLEARTEXT_PASSWORD))
    /\ pc' = "downstream_await_password"
    /\ UNCHANGED <<downstream_sock_ssl, upstream_sock, upstream_sock_ssl,
                   user, database, received_token, raised, upstream_sent,
                   downstream_closed, upstream_closed, peer_eof>>
    /\ UNCHANGED downstream_received
    /\ UNCHANGED <<framerVars, authVars, pipeVars>>

\* downstream_authenticate, from the password response on
DownstreamAuthenticate ==
    /\ pc = "downstream_await_password"
    /\ \E m \in PasswordInputs :
        /\ downstream_received' =
               Append(downstream_received,
                      MESSAGE_HEADER_pack(m.tag, m.payload_length))
        /\ IF m.payload_length > MAX_IN_MEMORY_MESSAGE_LENGTH
           THEN /\ Raise("ProtocolError")
                /\ UNCHANGED <<downstream_sent, received_token>>
           ELSE IF m.tag # PASSWORD_RESPONSE
           THEN /\ Raise("ProtocolError")
                /\ UNCHANGED <<downstream_sent, received_token>>
           ELSE IF m.payload_length - 4 < 0
           THEN /\ Raise("ValueError")
                /\ UNCHANGED <<downstream_sent, received_token>>
           ELSE /\ received_token' = m.tok
                /\ IF verify_token(m.tok, user) # "none"
                   THEN /\ Raise(verify_token(m.tok, user))
                        /\ UNCHANGED downstream_sent
                   ELSE /\ SendDownstream(
                               authentication_message(AUTHENTICATION_OK))
                        /\ pc' = "upstream_connect"
                        /\ UNCHANGED raised
    /\ UNCHANGED <<downstream_sock_ssl, upstream_sock, upstream_sock_ssl,
                   user, database, upstream_sent, downstream_closed,
                   upstream_closed, peer_eof>>
    /\ UNCHANGED <<framerVars, authVars, pipeVars>>

\* upstream_connect; socket.create_connection raises OSError on failure
UpstreamConnect ==
    /\ pc = "upstream_connect"
    /\ \E connected \in BOOLEAN :
        IF connected
        THEN /\ upstream_sock' = TRUE
             /\ pc' = "upstream_convert_to_ssl"
             /\ UNCHANGED raised
        ELSE /\ Raise("OSError")
             /\ UNCHANGED upstream_sock
    /\ UNCHANGED <<downstream_sock_ssl, upstream_sock_ssl, user, database,
                   received_token, downstream_sent, upstream_sent,
                   downstream_closed, upstream_closed, peer_eof>>
    /\ UNCHANGED downstream_received
    /\ UNCHANGED <<framerVars, authVars, pipeVars>>

\* upstream_convert_to_ssl, up to the SSLRequest being sent
UpstreamRequestTls ==
    /\ pc = "upstream_convert_to_ssl"
    /\ upstream_sent' = Append(upstream_sent, TLS_REQUEST)
    /\ pc' = "upstream_await_tls"
    /\ UNCHANGED <<downstream_sock_ssl, upstream_sock, upstream_sock_ssl,
                   user, database, received_token, raised, downstream_sent,
                   downstream_closed, upstream_closed, peer_eof>>
    /\ UNCHANGED downstream_received
    /\ UNCHANGED <<framerVars, authVars, pipeVars>>

\* upstream_convert_to_ssl, from the server's answer on
UpstreamConvertToSsl ==
    /\ pc = "upstream_await_tls"
    /\ \E response \in {TLS_RESPONSE, NO_DATA_TYPE}, handshake_ok \in BOOLEAN :
        IF response # TLS_RESPONSE
        THEN /\ Raise("ProtocolError")
             /\ UNCHANGED upstream_sock_ssl
        ELSE IF handshake_ok
        THEN /\ upstream_sock_ssl' = TRUE
             /\ pc' = "upstream_startup"
             /\ UNCHANGED raised
        ELSE /\ Raise("SSLError")
             /\ UNCHANGED upstream_sock_ssl
    /\ UNCHANGED <<downstream_sock_ssl, upstream_sock, user, database,
                   received_token, downstream_sent, upstream_sent,
                   downstream_closed, upstream_closed, peer_eof>>
    /\ UNCHANGED downstream_received
    /\ UNCHANGED <<framerVars, authVars, pipeVars>>

\* upstream_startup; the try block ends after it
UpstreamStartup ==
    /\ pc = "upstream_startup"
    /\ upstream_sent' = Append(upstream_sent,
                               upstream_startup_message(user, database))
    /\ pc' = "finally"
    /\ UNCHANGED <<downstream_sock_ssl, upstream_sock, upstream_sock_ssl,
                   user, database, received_token, raised, downstream_sent,
                   downstream_closed, upstream_closed, peer_eof>>
    /\ UNCHANGED downstream_received
    /\ UNCHANGED <<framerVars, authVars, pipeVars>>

\* recv_exactly when the peer has closed its side: sock.recv returns b''
\* each time, amount never decreases and the loop does not end
RecvAfterEOF ==
    /\ pc \in {"downstream_convert_to_ssl", "downstream_startup",
               "downstream_await_password", "upstream_await_tls"}
    /\ peer_eof' = TRUE
    /\ pc' = "recv_exactly"
    /\ UNCHANGED <<downstream_sock_ssl, upstream_sock, upstream_sock_ssl,
                   user, database, received_token, raised, downstream_sent,
                   upstream_sent, downstream_closed, upstream_closed>>
    /\ UNCHANGED downstream_received
    /\ UNCHANGED <<framerVars, authVars, pipeVars>>

\* except DownstreamAuthenticationError / except ProtocolError
Except ==
    /\ pc = "except"
    /\ SendDownstream(except_message(raised))
    /\ pc' = "finally"
    /\ UNCHANGED <<downstream_sock_ssl, upstream_sock, upstream_sock_ssl,
                   user, database, received_token, raised, upstream_sent,
                   downstream_closed, upstream_closed, peer_eof>>
    /\ UNCHANGED downstream_received
    /\ UNCHANGED <<framerVars, authVars, pipeVars>>

\* A finally block that closes the upstream socket only
Finally_upstream_only ==
    /\ pc = "finally"
    /\ upstream_closed' = upstream_sock
    /\ pc' = "done"
    /\ UNCHANGED <<downstream_sock_ssl, upstream_sock, upstream_sock_ssl,
                   user, database, received_token, raised, downstream_sent,
                   upstream_sent, peer_eof, downstream_closed>>
    /\ UNCHANGED downstream_received
    /\ UNCHANGED <<framerVars, authVars, pipeVars>>

\* The finally block: the upstream socket is closed if there is one, the
\* downstream socket always
Finally ==
    /\ pc = "finally"
    /\ upstream_closed' = upstream_sock
    /\ downstream_closed' = TRUE
    /\ pc' = "done"
    /\ UNCHANGED <<downstream_sock_ssl, upstream_sock, upstream_sock_ssl,
                   user, database, received_token, raised, downstream_sent,
                   upstream_sent, peer_eof>>
    /\ UNCHANGED downstream_received
    /\ UNCHANGED <<framerVars, authVars, pipeVars>>

NextJwt ==
    \/ DownstreamConvertToSsl
    \/ DownstreamStartup
    \/ DownstreamRequestPassword
    \/ DownstreamAuthenticate
    \/ UpstreamConnect
    \/ UpstreamRequestTls
    \/ UpstreamConvertToSsl
    \/ UpstreamStartup
    \/ RecvAfterEOF
    \/ Except
    \/ Finally

SpecJwt == InitJwt /\ [][NextJwt]_vars

----------------------------------------------------------------------------
(* JWT handshake: properties                                               *)

Sent(tls, data) == [tls |-> tls, data |-> data]

AuthOkSent ==
    \E i \in 1..Len(downstream_sent) :
        downstream_sent[i].data = authentication_message(AUTHENTICATION_OK)

UpstreamStartupSent ==
    \E i \in 1..Len(upstream_sent) :
        upstream_sent[i] = upstream_startup_message(user, database)

\* C8 -- JWT authentication gate.  AuthenticationOk is sent, the upstream
\* connection is opened and anything is sent upstream only after the TLS
\* accept, the StartupMessage and the password request went well and the
\* token had three segments, a signature that verified and a sub equal to
\* the user of the StartupMessage; the upstream is touched only after
\* AuthenticationOk.
JwtAuthGate ==
    /\ (AuthOkSent \/ upstream_sock \/ upstream_sent # <<>>)
         => /\ received_token.segments = 3
            /\ received_token.signature = "valid"
            /\ received_token.payload = "object"
            /\ received_token.sub = user
            /\ user \in Users
            /\ downstream_sock_ssl
            /\ SubSeq(downstream_sent, 1, 3)
                 = << Sent(FALSE, TLS_RESPONSE),
                      Sent(TRUE, authentication_message(
                                     AUTHENTICATION_CLEARTEXT_PASSWORD)),
                      Sent(TRUE, authentication_message(AUTHENTICATION_OK)) >>
    /\ (upstream_sock \/ upstream_sent # <<>>) => AuthOkSent
    /\ UpstreamStartupSent => upstream_sock /\ upstream_sock_ssl

\* A handshake went through to the upstream StartupMessage.
JwtAuthGateWitness ==
    /\ AuthOkSent
    /\ upstream_sock
    /\ UpstreamStartupSent
    /\ pc = "done"

\* The token reached the signature check and failed it, or passed it and
\* carries another sub than the claimed user
TokenRejected ==
    /\ received_token.segments = 3
    /\ \/ received_token.signature = "invalid"
       \/ /\ received_token.signature = "valid"
          /\ received_token.payload = "object"
          /\ received_token.sub # user

\* C9 -- JWT authentication failure.  When the signature is invalid or sub
\* differs from the claimed user, DownstreamAuthenticationError is raised,
\* the except clause sends 'E' with the body S FATAL, M Authentication
\* failed, C 28P01 over the TLS socket as the last thing the client gets,
\* AuthenticationOk is not sent, no upstream socket is opened, and the
\* handler ends with the downstream socket closed.
JwtAuthFailure ==
    TokenRejected
      => /\ raised = "DownstreamAuthenticationError"
         /\ pc \in {"except", "finally", "done"}
         /\ ~AuthOkSent
         /\ ~upstream_sock /\ upstream_sent = <<>>
         /\ pc \in {"finally", "done"}
              => downstream_sent[Len(downstream_sent)]
                   = Sent(TRUE, auth_error_message)
         /\ pc = "done" => downstream_closed

\* A correctly signed token for another user was answered with the
\* authentication error and the connection was closed.
JwtAuthFailureWitness ==
    /\ received_token.signature = "valid"
    /\ received_token.payload = "object"
    /\ received_token.sub # user
    /\ pc = "done"
    /\ downstream_closed
    /\ Len(downstream_sent) = 3

\* C10 -- JWT relay phase.  Once AuthenticationOk and the upstream
\* StartupMessage are sent, both sockets stay open as long as no peer has
\* signalled EOF.
JwtRelayUntilEOF ==
    (AuthOkSent /\ UpstreamStartupSent /\ ~peer_eof)
      => ~downstream_closed /\ ~upstream_closed

\* The first eight bytes received were not the SSLRequest
FirstChunkWrong ==
    /\ Len(downstream_received) >= 1
    /\ downstream_received[1] # TLS_REQUEST

\* The StartupMessage header received carries another protocol version
VersionWrong ==
    /\ Len(downstream_received) >= 2
    /\ STARTUP_MESSAGE_HEADER_unpack(downstream_received[2])[2]
         # PROTOCOL_VERSION

\* An 'E' message is among what was sent to the client
ErrorSent ==
    \E i \in 1..Len(downstream_sent) : Head(downstream_sent[i].data) = 69

PasswordRequested ==
    \E i \in 1..Len(downstream_sent) :
        downstream_sent[i].data
          = authentication_message(AUTHENTICATION_CLEARTEXT_PASSWORD)

\* C11 -- JWT handshake guards.  After first bytes other than the
\* SSLRequest or a StartupMessage of another protocol version the handshake
\* goes no further: the handler ends with an 'E' message sent to the client
\* and the downstream socket closed, 'S' is not sent when the first bytes
\* were wrong, no password request is sent, and no upstream socket is
\* opened or written to.
JwtHandshakeGuards ==
    (FirstChunkWrong \/ VersionWrong)
      => /\ pc \in {"except", "finally", "done"}
         /\ pc \in {"finally", "done"} => ErrorSent
         /\ pc = "done" => downstream_closed
         /\ FirstChunkWrong
              => \A i \in 1..Len(downstream_sent) :
                     downstream_sent[i].data # TLS_RESPONSE
         /\ ~PasswordRequested
         /\ ~upstream_sock /\ upstream_sent = <<>> /\ ~upstream_closed

\* A StartupMessage of protocol version 196609 was answered over TLS with
\* 'E' and the connection was closed.
JwtHandshakeGuardsWitness ==
    /\ VersionWrong
    /\ ~FirstChunkWrong
    /\ pc = "done"
    /\ downstream_closed
    /\ ErrorSent
    /\ downstream_sent[1] = Sent(FALSE, TLS_RESPONSE)

\* C14 -- JWT upstream connection failure.  When the handler has left the
\* try block after AuthenticationOk without an upstream socket (opening
\* the upstream connection failed), the last thing sent to the client is
\* the minimal 'E' ErrorResponse, over TLS.
JwtUpstreamConnectFailure ==
    (AuthOkSent /\ ~upstream_sock /\ pc \in {"finally", "done"})
      => downstream_sent[Len(downstream_sent)] = Sent(TRUE, minimal_error)

\* The token read by downstream_authenticate fails some step of its
\* verification
TokenVerificationFailed ==
    /\ received_token # NoToken
    /\ \/ received_token.segments # 3
       \/ received_token.signature # "valid"
       \/ received_token.payload # "object"
       \/ received_token.sub # user

\* C15 -- JWT token verification failures are all authentication errors.
\* Whatever step of the verification the token fails, what is raised is
\* DownstreamAuthenticationError, and the handler leaves the except clause
\* with the FATAL / 28P01 ErrorResponse as the last thing sent to the
\* client.
JwtVerifyFailureIsAuthError ==
    TokenVerificationFailed
      => /\ raised = "DownstreamAuthenticationError"
         /\ pc \in {"finally", "done"}
              => downstream_sent[Len(downstream_sent)]
                   = Sent(TRUE, auth_error_message)

\* C16 -- JWT handshake terminates on peer EOF.  Once a recv of
\* recv_exactly has returned zero bytes, the read has ended with
\* ConnectionClosed and the handler is past its try block, on the way to
\* closing the sockets.
JwtRecvEOFRaises ==
    peer_eof
      => /\ raised = "ConnectionClosed"
         /\ pc \in {"except", "finally", "done"}

\* The StartupMessage received breaks the protocol: it declares more than
\* the cap or less than its own header, carries another version, or lacks
\* user or database
StartupMessageBad ==
    /\ Len(downstream_received) >= 2
    /\ LET unpacked == STARTUP_MESSAGE_HEADER_unpack(downstream_received[2])
       IN  \/ unpacked[1] > MAX_IN_MEMORY_MESSAGE_LENGTH
           \/ unpacked[1] < 8
           \/ unpacked[2] # PROTOCOL_VERSION
           \/ /\ Len(downstream_received) >= 3
              /\ LET pairs == findall_startup_pairs(downstream_received[3], 1)
                 IN  ~HasKey(pairs, USER_KEY) \/ ~HasKey(pairs, DATABASE_KEY)

\* The header of the password message received breaks the protocol: another
\* tag than 'p', or a declared length above the cap or below 4
PasswordHeaderBad ==
    /\ Len(downstream_received) >= 4
    /\ LET header == downstream_received[4]
           payload_length == INT_unpack(SubSeq(header, 2, 5))
       IN  \/ SubSeq(header, 1, 1) # PASSWORD_RESPONSE
           \/ payload_length > MAX_IN_MEMORY_MESSAGE_LENGTH
           \/ payload_length < 4

\* C19 -- JWT pre-auth protocol failures are reported.  When the handler
\* has ended after first bytes other than the SSLRequest, a bad
\* StartupMessage or a bad password header, the last thing sent to the
\* client is the minimal 'E' ErrorResponse, and the downstream socket is
\* closed.
JwtPreAuthFailureReported ==
    (pc = "done" /\ (FirstChunkWrong \/ StartupMessageBad \/ PasswordHeaderBad))
      => /\ downstream_sent # <<>>
         /\ downstream_sent[Len(downstream_sent)].data = minimal_error
         /\ downstream_closed

----------------------------------------------------------------------------
(* Framer: ill-formed input                                                *)

\* The type length of the next pop
NextTypeLength ==
    IF messages_popped < num_startup_messages THEN START_MESSAGE_TYPE_LENGTH
    ELSE LATER_MESSAGE_TYPE_LENGTH

\* The buffer starts with a whole header (not 'N') whose four length bytes
\* declare less than 4
UndersizedHeaderBuffered ==
    /\ Len(data_buffer) >= NextTypeLength + PAYLOAD_LENGTH_LENGTH
    /\ PySlice(data_buffer, 0, NextTypeLength) # NO_DATA_TYPE
    /\ unpack_length(PySlice(data_buffer, NextTypeLength,
                             NextTypeLength + PAYLOAD_LENGTH_LENGTH)) < 0

\* C17 -- Undersized declared length.  A framer that holds a header
\* declaring less than 4 does not stay on it: the next read either fails
\* the connection, so that no further read is pushed, or gets past the
\* header.  As a step property: every read of further bytes pushed onto
\* such a buffer pops a message.
FramerUndersizedLength ==
    [][ (UndersizedHeaderBuffered /\ unread' # unread)
          => messages_popped' > messages_popped ]_vars

\* C20 -- Framer byte conservation.  For every stream, well-formed or not,
\* and every chunking: the emitted messages, then the retained bytes, then
\* the bytes not yet pushed are the stream; a pop attempt on the retained
\* bytes, alone or with any more of the stream appended, either fails and
\* leaves the buffer as it is, or removes exactly the bytes of the message
\* it returns; and a call with no data changes neither the buffer nor
\* messages_popped.
FramerByteConservation ==
    /\ JoinFlatten(emitted) \o data_buffer \o unread = stream
    /\ \A k \in 0..Len(unread) :
         LET buffer == data_buffer \o SubSeq(unread, 1, k)
             r == attempt_pop_message(buffer, NextTypeLength)
         IN  IF r.has_popped
             THEN JoinFlatten(<<r.message>>) \o r.buffer = buffer
             ELSE r.buffer = buffer
    /\ extract_messages(data_buffer, messages_popped, num_startup_messages,
                        <<>>)
         = [buffer |-> data_buffer, messages_popped |-> messages_popped,
            messages |-> <<>>]

\* A stream that is not well-formed was pushed up to EOF: a message came
\* out and bytes that make no message remain.
FramerByteConservationWitness ==
    /\ ~well_formed
    /\ at_eof
    /\ emitted # <<>>
    /\ data_buffer # <<>>
    /\ JoinFlatten(emitted) \o data_buffer = stream
    /\ Len(JoinFlatten(emitted)) < Len(stream)

----------------------------------------------------------------------------
(* MD5 rewriter: the salts                                                 *)

\* C18 -- Salt write-once-before-read.  In every interleaving of the calls
\* from the client reader and from the server reader, a salt that is set is
\* never assigned again, and to_server_md5_response is only ever called,
\* for a 'p' "md5" message, when both salts are set.
AuthSaltWriteOnce ==
    [][ /\ server_salt # None => server_salt' = server_salt
        /\ client_salt # None => client_salt' = client_salt
        /\ (call'.dir = "c2s" /\ is_md5_response(call'.message))
             => (server_salt # None /\ client_salt # None) ]_vars

----------------------------------------------------------------------------
(* app.py: handle_client, the processors chained                           *)

\* c2s_from_outside of postgres_auth_processor that stops after the first
\* message of a call
c2s_from_outside_first_only(messages, ssalt, csalt, token) ==
    IF messages = <<>> THEN [raised |-> "none", yielded |-> <<>>]
    ELSE LET r == c2s_message_to_yield(Head(messages), ssalt, csalt, token)
         IN  IF r.raised # "none"
             THEN [raised |-> r.raised, yielded |-> <<>>]
             ELSE [raised |-> "none", yielded |-> <<r.message>>]

\* c2s_from_outside of postgres_auth_processor: the loop over the messages
\* of one call.  What it yields, in order, up to the message whose rewrite
\* raises, if one does.  Each message yielded goes through echo_processor
\* and back out to server_writer.write before the next is looked at.
RECURSIVE c2s_from_outside(_, _, _, _)
c2s_from_outside(messages, ssalt, csalt, token) ==
    IF messages = <<>> THEN [raised |-> "none", yielded |-> <<>>]
    ELSE LET r == c2s_message_to_yield(Head(messages), ssalt, csalt, token)
             rest == c2s_from_outside(Tail(messages), ssalt, csalt, token)
         IN  IF r.raised # "none"
             THEN [raised |-> r.raised, yielded |-> <<>>]
             ELSE [raised |-> rest.raised,
                   yielded |-> <<r.message>> \o rest.yielded]

\* s2c_from_outside of postgres_auth_processor: the loop over the messages
\* of one call, each seeing the salts the one before it left
RECURSIVE s2c_from_outside(_, _, _, _)
s2c_from_outside(messages, ssalt, csalt, fresh) ==
    IF messages = <<>>
    THEN [server_salt |-> ssalt, client_salt |-> csalt, yielded |-> <<>>]
    ELSE LET r == s2c_message_to_yield(Head(messages), ssalt, csalt, fresh)
             rest == s2c_from_outside(Tail(messages), r.server_salt,
                                      r.client_salt, fresh)
         IN  [rest EXCEPT !.yielded = <<r.message>> \o rest.yielded]

----------------------------------------------------------------------------
(* The peers of a proxied connection                                       *)

\* reader.read returns this many bytes, or all there are
ShortRead == 10

\* What a client sends first: the SSLRequest, then the StartupMessage
PipeStartupShaped ==
    << SSLRequest,
       Framed(<<>>, <<0, 3, 0, 0>>
                      \o EncodePairs(<< <<USER_KEY, correct_client_username>> >>)
                      \o <<0>>) >>

PipeClientLater ==
    { Framed(TYPE_p, MD5_PREFIX
                       \o md5_salted(correct_client_password,
                                     correct_client_username, <<1, 1, 1, 1>>)
                       \o <<0>>),
      Framed(<<81>>, <<120, 0>>) }

PipeServerLater ==
    { Message(NO_DATA_TYPE, <<>>, <<>>),
      Framed(TYPE_R, MD5_REQUEST \o <<9, 9, 9, 9>>) }

\* The lists of n messages a client sends, the first `done` already chosen
RECURSIVE ClientLists(_, _)
ClientLists(n, done) ==
    IF n = 0 THEN {<<>>}
    ELSE { <<m>> \o rest :
             m \in IF done < 2 THEN {PipeStartupShaped[done + 1]}
                   ELSE PipeClientLater,
             rest \in ClientLists(n - 1, done + 1) }

ClientStreams ==
    { JoinFlatten(l) : l \in UNION { ClientLists(n, 0) : n \in 0..MaxClientMsgs } }

ServerStreams ==
    { JoinFlatten(l) : l \in SeqsUpTo(PipeServerLater, MaxServerMsgs) }

----------------------------------------------------------------------------
(* handle_client: state machine                                            *)

InitPipe ==
    /\ IdleFramer
    /\ IdleAuth
    /\ IdleJwt
    /\ client_stream \in ClientStreams
    /\ client_unread = client_stream
    /\ server_stream \in ServerStreams
    /\ server_unread = server_stream
    /\ c2s_parser = [data_buffer |-> <<>>, messages_popped |-> 0]
    /\ s2c_parser = [data_buffer |-> <<>>, messages_popped |-> 0]
    /\ c2s_out = <<>>
    /\ s2c_out = <<>>
    /\ server_written = <<>>
    /\ client_written = <<>>
    /\ client_task = "running"
    /\ server_task = "running"
    /\ closed = FALSE

\* on_data(data) of the client reader: processors[0].c2s_from_outside down
\* to echo_processor and back out to edge_to_c2s_outer
ClientOnData(data, token, at_end) ==
    LET f == extract_messages(c2s_parser.data_buffer,
                              c2s_parser.messages_popped, 2, data)
        r == c2s_from_outside(f.messages, server_salt, client_salt, token)
    IN  /\ c2s_parser' = [data_buffer |-> f.buffer,
                          messages_popped |-> f.messages_popped]
        /\ c2s_out' = c2s_out \o r.yielded
        /\ server_written' = server_written \o JoinFlatten(r.yielded)
        /\ auth_error' = r.raised
        /\ client_task' = IF r.raised # "none" THEN "raised"
                          ELSE IF at_end THEN "done" ELSE "running"

\* on_data(data) of the server reader
ServerOnData(data, fresh, at_end) ==
    LET f == extract_messages(s2c_parser.data_buffer,
                              s2c_parser.messages_popped, 0, data)
        r == s2c_from_outside(f.messages, server_salt, client_salt, fresh)
    IN  /\ s2c_parser' = [data_buffer |-> f.buffer,
                          messages_popped |-> f.messages_popped]
        /\ s2c_out' = s2c_out \o r.yielded
        /\ client_written' = client_written \o JoinFlatten(r.yielded)
        /\ server_salt' = r.server_salt
        /\ client_salt' = r.client_salt
        /\ server_task' = IF at_end THEN "done" ELSE "running"

\* What reader.read may return when `pending` is still to come: a short
\* read or all of it, and b"" once the peer has closed its side
ReadSizes(pending) ==
    IF pending = <<>> THEN {0}
    ELSE {Min(ShortRead, Len(pending)), Len(pending)}

\* on_read(client_reader, ...): one turn of the loop.  At EOF read returns
\* b"", which is passed on as well, and the loop ends.
ClientRead ==
    /\ client_task = "running"
    /\ \E k \in ReadSizes(client_unread), token \in Tokens :
        /\ ClientOnData(SubSeq(client_unread, 1, k), token, k = 0)
        /\ client_unread' = SubSeq(client_unread, k + 1, Len(client_unread))
    /\ UNCHANGED <<client_stream, server_stream, server_unread, s2c_parser,
                   s2c_out, client_written, server_task, closed>>
    /\ UNCHANGED <<server_salt, client_salt, call, twin_server_salt,
                   twin_to_client>>
    /\ UNCHANGED <<framerVars, jwtVars>>

\* on_read(server_reader, ...): one turn of the loop
ServerRead ==
    /\ server_task = "running"
    /\ \E k \in ReadSizes(server_unread), fresh \in ClientSalts :
        /\ ServerOnData(SubSeq(server_unread, 1, k), fresh, k = 0)
        /\ server_unread' = SubSeq(server_unread, k + 1, Len(server_unread))
    /\ UNCHANGED <<client_stream, client_unread, server_stream, c2s_parser,
                   c2s_out, server_written, client_task, closed>>
    /\ UNCHANGED <<call, auth_error, twin_server_salt, twin_to_client>>
    /\ UNCHANGED <<framerVars, jwtVars>>

\* asyncio.gather returns once both readers have returned, or raises as
\* soon as one of them has raised; the finally block then closes
\* client_writer and server_writer
Close ==
    /\ ~closed
    /\ \/ client_task = "raised"
       \/ server_task = "raised"
       \/ client_task = "done" /\ server_task = "done"
    /\ closed' = TRUE
    /\ UNCHANGED <<client_stream, client_unread, server_stream, server_unread,
                   c2s_parser, s2c_parser, c2s_out, s2c_out, server_written,
                   client_written, client_task, server_task>>
    /\ UNCHANGED <<framerVars, authVars, jwtVars>>

NextPipe == ClientRead \/ ServerRead \/ Close

SpecPipe == InitPipe /\ [][NextPipe]_vars

----------------------------------------------------------------------------
(* handle_client: properties                                               *)

\* The complete messages among the bytes read from the client so far, and
\* among those read from the server, in the order they arrived
ClientMessagesRead ==
    extract_messages(<<>>, 0, 2,
                     SubSeq(client_stream, 1,
                            Len(client_stream) - Len(client_unread))).messages
ServerMessagesRead ==
    extract_messages(<<>>, 0, 0,
                     SubSeq(server_stream, 1,
                            Len(server_stream) - Len(server_unread))).messages

\* The message is passed on as it is or rewritten in place
ForwardedC2S(in, out) ==
    \/ out = in
    \/ /\ is_startup(in) \/ is_md5_response(in)
       /\ out.type = in.type
ForwardedS2C(in, out) ==
    \/ out = in
    \/ /\ is_md5_request(in)
       /\ out.type = in.type
       /\ out.payload_length = in.payload_length
       /\ \E salt \in ClientSalts :
              out.payload = PySlice(in.payload, 0, 4) \o salt

PipelineTeardownOnEOF ==
    [][ (~closed /\ (client_task = "done" \/ server_task = "done"))
          => /\ client_unread' = client_unread
             /\ server_unread' = server_unread ]_vars

----------------------------------------------------------------------------
(* MD5 rewriter: framing of what is forwarded                              *)

\* The length bytes of a message declare its payload length + 4
WellFramed(message) ==
    message.payload_length = pack_length(Len(message.payload))

\* C21: for every message given to c2s_from_outside or s2c_from_outside
\* whose length bytes declare its payload length + 4, every message passed
\* on has length bytes equal to its own payload length + 4, rewritten or not.
AuthFramingPreserved ==
    (call.dir # "none" /\ WellFramed(call.message))
        => \A i \in 1..Len(call.yielded) : WellFramed(call.yielded[i])

----------------------------------------------------------------------------
(* JWT handshake: ErrorResponses written to the client                     *)

\* The positions of the 'E' messages among what was sent to the client
ErrorsSent ==
    { i \in 1..Len(downstream_sent) : Head(downstream_sent[i].data) = 69 }

\* C22: on every execution of handle_downstream at most one 'E' message is
\* written to the client, whichever step of the handshake fails.
JwtAtMostOneError == Cardinality(ErrorsSent) <= 1

====
